---- MODULE Spec2Model ----
(***************************************************************************)
(* A model of the ioka client library (src/ioka/api.py): the HTTP client   *)
(* Api with its _request method and resource methods, the request records  *)
(* (CreateOrder, CancelOrder, CaptureOrder, RefundOrder), the Order facade *)
(* with its class-level binding Order.api, and the root client Ioka.       *)
(*                                                                         *)
(* Python values are modelled as follows.  A dict is a function whose      *)
(* DOMAIN is its key set.  A header value is a record [kind, val]: kind    *)
(* "SecretStr" for a pydantic SecretStr object and "str" for a plain       *)
(* string.  An optional argument is a record [given, d].  A URL is the     *)
(* record [host, version, path], path being the sequence of the segments   *)
(* that the f-strings of the source join with "/".                         *)
(***************************************************************************)
EXTENDS Integers, Sequences, FiniteSets, TLC

VARIABLES
    headers,            \* Api.headers of each client instance (one dict object each)
    orderApi,           \* the class attribute Order.api (None until set_api runs)
    uuidCalls,          \* how many times uuid4() has been called
    externalIdDefault,  \* the default of CreateOrder.external_id, fixed when the class is defined
    handles,            \* ghost: the clients whose .order (or set_api) the caller has used
    held,               \* the Order records the caller holds, each tagged with the handle it came through
    last                \* the last operation: its arguments, the requests it issued, its log and its outcome

vars == <<headers, orderApi, uuidCalls, externalIdDefault, handles, held, last>>

None == "None"
EmptyDict == <<>>

(* --------------------------- bounds of the model ----------------------- *)
MaxHeld == 1        \* Order records the caller keeps at a time
MaxList == 2        \* elements of a "list orders" response

(* --------------------------- the two clients --------------------------- *)
Clients == {"A", "B"}

\* Ioka(api_host=..., api_key=...): two instances that differ in host and key.
ApiHost(c) == IF c = "A" THEN "https://a.example" ELSE "https://b.example"
ApiKey(c) == IF c = "A" THEN "key-A" ELSE "key-B"
ApiVersion(c) == "v2"

SecretStr(v) == [kind |-> "SecretStr", val |-> v]
Str(v) == [kind |-> "str", val |-> v]

\* Api.__init__: self.headers = {"API-KEY": self.api_key, "Content-Type": ...};
\* the value stored under API-KEY is the SecretStr object itself.
InitHeaders(c) ==
    ("API-KEY" :> SecretStr(ApiKey(c))) @@ ("Content-Type" :> Str("application/json"))

(* --------------------------- Api._request ------------------------------ *)
NoArg == [given |-> FALSE, d |-> EmptyDict]
Arg(d) == [given |-> TRUE, d |-> d]

\* Python truthiness of an optional dict argument: None and {} are falsy.
Truthy(a) == a.given /\ DOMAIN a.d # {}

\* What an f-string shows of a header value: a SecretStr is masked, a str is not.
Repr(hv) ==
    IF hv.kind = "SecretStr"
    THEN (IF hv.val = "" THEN "SecretStr('')" ELSE "SecretStr('**********')")
    ELSE hv.val

\* url = f"{self.api_host}/{self.version}/" + url
FullUrl(c, url) == [host |-> ApiHost(c), version |-> ApiVersion(c), path |-> url]

\* The debug trace of the outgoing request, written before the key is set.
LogLine(method, fullUrl, hdrs) ==
    [method |-> method, url |-> fullUrl,
     headers |-> [n \in DOMAIN hdrs |-> Repr(hdrs[n])]]

\* A variant that keeps an API-KEY entry the dict already has (dict.setdefault).
SetApiKeyIfAbsent(hdrs, c) ==
    [n \in DOMAIN hdrs \cup {"API-KEY"} |->
        IF n \in DOMAIN hdrs THEN hdrs[n] ELSE Str(ApiKey(c))]

\* headers["API-KEY"] = self.api_key.get_secret_value()
SetApiKey(hdrs, c) ==
    [n \in DOMAIN hdrs \cup {"API-KEY"} |->
        IF n = "API-KEY" THEN Str(ApiKey(c)) ELSE hdrs[n]]

\* A variant that raises for every status outside 200..299.
RaisesOutside2xx(status) == status < 200 \/ status >= 300

\* requests.Response.raise_for_status raises HTTPError for 4xx and 5xx only.
RaisesForStatus(status) == status >= 400 /\ status < 600

\* A response of the transport: a transport failure, or a status with a body
\* that holds JSON (valid) or does not.
NoResponse == [transport |-> FALSE, status |-> 0, valid |-> FALSE, json |-> <<>>]
TransportError == [transport |-> TRUE, status |-> 0, valid |-> FALSE, json |-> <<>>]
Http(status, valid, json) ==
    [transport |-> FALSE, status |-> status, valid |-> valid, json |-> json]

\* if raise_for_status: response.raise_for_status(); return response.json()
\* return response
Outcome(raise_for_status, resp) ==
    IF resp.transport
    THEN [outcome |-> "ConnectionError", status |-> 0, value |-> <<>>]
    ELSE IF ~raise_for_status
    THEN [outcome |-> "returned", status |-> resp.status, value |-> resp]
    ELSE IF RaisesForStatus(resp.status)
    THEN [outcome |-> "HTTPError", status |-> resp.status, value |-> <<>>]
    ELSE IF ~resp.valid
    THEN [outcome |-> "JSONDecodeError", status |-> resp.status, value |-> <<>>]
    ELSE [outcome |-> "returned", status |-> resp.status, value |-> resp.json]

\* A variant of _request that sends the request a second time when the
\* transport fails.
RequestWithRetry(c, method, url, params, params_type, hdrs, raise_for_status, resp) ==
    LET own == ~Truthy(hdrs)
        used == IF own THEN headers[c] ELSE hdrs.d
        fullUrl == FullUrl(c, url)
        sent == SetApiKey(used, c)
        req == [method |-> method, url |-> fullUrl, headers |-> sent,
                params_type |-> IF Truthy(params) THEN params_type ELSE None,
                body |-> IF Truthy(params) THEN params.d ELSE EmptyDict]
        out == Outcome(raise_for_status, resp)
    IN  [client |-> c,
         reqs |-> IF resp.transport THEN <<req, req>> ELSE <<req>>,
         logs |-> <<LogLine(method, fullUrl, used)>>,
         selfHeaders |-> IF own THEN sent ELSE headers[c],
         outcome |-> out.outcome, status |-> out.status, value |-> out.value]

\* Api._request(method, url, params, params_type, headers, raise_for_status) on
\* client c, the transport answering resp.  own: the dict used is self.headers,
\* which the call then changes in place.
Request(c, method, url, params, params_type, hdrs, raise_for_status, resp) ==
    LET own == ~Truthy(hdrs)
        used == IF own THEN headers[c] ELSE hdrs.d
        fullUrl == FullUrl(c, url)
        sent == SetApiKey(used, c)
        req == [method |-> method, url |-> fullUrl, headers |-> sent,
                params_type |-> IF Truthy(params) THEN params_type ELSE None,
                body |-> IF Truthy(params) THEN params.d ELSE EmptyDict]
        out == Outcome(raise_for_status, resp)
    IN  [client |-> c,
         reqs |-> <<req>>,
         logs |-> <<LogLine(method, fullUrl, used)>>,
         selfHeaders |-> IF own THEN sent ELSE headers[c],
         outcome |-> out.outcome, status |-> out.status, value |-> out.value]

\* A call that raised before reaching _request (validation, a bad argument).
Raised(c, exc) ==
    [client |-> c, reqs |-> <<>>, logs |-> <<>>, selfHeaders |-> headers[c],
     outcome |-> exc, status |-> 0, value |-> <<>>]

(* --------------------------- request records --------------------------- *)
MinAmount == 100        \* Field(..., ge=100)
MccLength == 4          \* Field(None, min_length=4, max_length=4)
MinAttempts == 1        \* Field(10, ge=1, le=50)
MaxAttempts == 50
DefaultAttempts == 10
MaxReasonLength == 255  \* Field(..., max_length=255)

CurrencyEnum == {"KZT", "USD", "RUB"}
CaptureMethodEnum == {"AUTO", "MANUAL"}

\* HttpUrl: a URL value is the record [scheme, host]; pydantic accepts the
\* schemes http and https and wants a host.
IsHttpUrl(u) == u.scheme \in {"http", "https"} /\ u.host # ""

CreateOrderFields ==
    {"amount", "currency", "capture_method", "external_id", "description", "mcc",
     "extra_info", "attempts", "due_date", "customer_id", "card_id", "back_url",
     "success_url", "failure_url", "template"}

\* The constraint CreateOrder declares on field f, applied to a supplied value v.
CreateOrderOk(f, v) ==
    CASE f = "amount" -> v >= MinAmount
      [] f = "currency" -> v \in CurrencyEnum
      [] f = "capture_method" -> v \in CaptureMethodEnum
      [] f = "external_id" -> Len(v) >= 1
      [] f = "mcc" -> Len(v) = MccLength
      [] f = "attempts" -> v >= MinAttempts /\ v <= MaxAttempts
      [] f \in {"customer_id", "card_id"} -> Len(v) >= 1
      [] f \in {"back_url", "success_url", "failure_url"} -> IsHttpUrl(v)
      [] OTHER -> TRUE

\* The value a CreateOrder field takes when the caller does not supply it.
CreateOrderDefault(f) ==
    CASE f = "external_id" -> externalIdDefault
      [] f = "attempts" -> DefaultAttempts
      [] OTHER -> None

CancelOrderFields == {"order_id", "reason"}
CancelOrderOk(f, v) ==
    CASE f = "reason" -> Len(v) <= MaxReasonLength
      [] OTHER -> TRUE
CancelOrderDefault(f) == None

CaptureOrderFields == {"amount", "reason"}
CaptureOrderOk(f, v) ==
    CASE f = "amount" -> v >= MinAmount
      [] f = "reason" -> Len(v) <= MaxReasonLength
      [] OTHER -> TRUE
CaptureOrderDefault(f) == None

RefundOrderFields == {"amount", "reason", "rules", "positions"}
RefundOrderOk(f, v) ==
    CASE f = "amount" -> v >= MinAmount
      [] f = "reason" -> Len(v) <= MaxReasonLength
      [] OTHER -> TRUE
RefundOrderDefault(f) == None

\* BaseModel.__init__(**data): keys that are no declared field are ignored, a
\* required field that is missing or a supplied value that breaks its
\* constraint (broken: the supplied fields that do) is an error
\* (ValidationError), a field not supplied takes its default, and fields_set
\* remembers which fields the caller supplied.
Construct(fields, required, broken, defaults, data) ==
    LET supplied == DOMAIN data \cap fields
    IN  [errors |-> (required \ supplied) \cup broken,
         fields_set |-> supplied,
         values |-> [f \in fields |-> IF f \in supplied THEN data[f] ELSE defaults[f]]]

CreateOrder(data) ==
    Construct(CreateOrderFields, {"amount"},
              {f \in DOMAIN data \cap CreateOrderFields : ~CreateOrderOk(f, data[f])},
              [f \in CreateOrderFields |-> CreateOrderDefault(f)], data)
CancelOrder(data) ==
    Construct(CancelOrderFields, {"order_id", "reason"},
              {f \in DOMAIN data \cap CancelOrderFields : ~CancelOrderOk(f, data[f])},
              [f \in CancelOrderFields |-> CancelOrderDefault(f)], data)
CaptureOrder(data) ==
    Construct(CaptureOrderFields, {"amount"},
              {f \in DOMAIN data \cap CaptureOrderFields : ~CaptureOrderOk(f, data[f])},
              [f \in CaptureOrderFields |-> CaptureOrderDefault(f)], data)
RefundOrder(data) ==
    Construct(RefundOrderFields, {"amount"},
              {f \in DOMAIN data \cap RefundOrderFields : ~RefundOrderOk(f, data[f])},
              [f \in RefundOrderFields |-> RefundOrderDefault(f)], data)

\* A variant that serializes every field, set or not: .dict().
DictAll(rec) == rec.values

\* .dict(exclude_unset=True): the fields the caller supplied, and only those.
DictExcludeUnset(rec) == [f \in rec.fields_set |-> rec.values[f]]

(* --------------------------- Api resource methods ---------------------- *)
\* Python binds the keyword order_id to the parameter of that name; **data
\* receives the other keywords.
Without(kwargs, k) == [n \in DOMAIN kwargs \ {k} |-> kwargs[n]]

\* What a resource method hands back to the action: the outcome of _request
\* (or of the exception raised before it) and the request record it built.
WithRecord(r, rec) ==
    [client |-> r.client, reqs |-> r.reqs, logs |-> r.logs,
     selfHeaders |-> r.selfHeaders, outcome |-> r.outcome, status |-> r.status,
     value |-> r.value, record |-> rec, calls |-> <<>>]

\* The method of client r.client that ran, with the arguments it received.
Invoked(method, args, r) ==
    [r EXCEPT !.calls = <<[method |-> method, args |-> args]>>]

NoRecord == [errors |-> {}, fields_set |-> {}, values |-> EmptyDict]

\* A variant that sends the request first and looks at the record's errors
\* afterwards.
PostThenValidate(c, url, rec, resp) ==
    LET r == Request(c, "post", url, Arg(DictExcludeUnset(rec)), "json",
                     NoArg, TRUE, resp)
    IN  IF rec.errors # {}
        THEN WithRecord([r EXCEPT !.outcome = "ValidationError", !.value = <<>>], rec)
        ELSE WithRecord(r, rec)

\* The body of a resource method that validates **data through a record type
\* and posts the serialized record to url.
PostRecord(c, url, rec, resp) ==
    IF rec.errors # {}
    THEN WithRecord(Raised(c, "ValidationError"), rec)
    ELSE WithRecord(Request(c, "post", url, Arg(DictExcludeUnset(rec)), "json",
                            NoArg, TRUE, resp), rec)

\* The body of a resource method that gets url.
Get(c, url, resp) ==
    WithRecord(Request(c, "get", url, NoArg, "json", NoArg, TRUE, resp), NoRecord)

create_order(c, data, resp) ==
    Invoked("create_order", data,
            PostRecord(c, <<"orders">>, CreateOrder(data), resp))

cancel_order(c, kwargs, resp) ==
    IF "order_id" \notin DOMAIN kwargs
    THEN WithRecord(Raised(c, "TypeError"), NoRecord)
    ELSE Invoked("cancel_order", kwargs,
                 PostRecord(c, <<"orders", kwargs["order_id"], "cancel">>,
                            CancelOrder(Without(kwargs, "order_id")), resp))

get_orders(c, resp) == Invoked("get_orders", EmptyDict, Get(c, <<"orders">>, resp))

get_order_by_id(c, order_id, resp) ==
    Invoked("get_order_by_id", [order_id |-> order_id],
            Get(c, <<"orders", order_id>>, resp))

\* A variant of capture_order that posts to the path of cancel_order.
capture_order_to_cancel(c, kwargs, resp) ==
    IF "order_id" \notin DOMAIN kwargs
    THEN WithRecord(Raised(c, "TypeError"), NoRecord)
    ELSE Invoked("capture_order", kwargs,
                 PostRecord(c, <<"orders", kwargs["order_id"], "cancel">>,
                            CaptureOrder(Without(kwargs, "order_id")), resp))

capture_order(c, kwargs, resp) ==
    IF "order_id" \notin DOMAIN kwargs
    THEN WithRecord(Raised(c, "TypeError"), NoRecord)
    ELSE Invoked("capture_order", kwargs,
                 PostRecord(c, <<"orders", kwargs["order_id"], "capture">>,
                            CaptureOrder(Without(kwargs, "order_id")), resp))

get_order_events(c, order_id, resp) ==
    Invoked("get_order_events", [order_id |-> order_id],
            Get(c, <<"orders", order_id, "events">>, resp))

refund_order(c, kwargs, resp) ==
    IF "order_id" \notin DOMAIN kwargs
    THEN WithRecord(Raised(c, "TypeError"), NoRecord)
    ELSE Invoked("refund_order", kwargs,
                 PostRecord(c, <<"orders", kwargs["order_id"], "refunds">>,
                            RefundOrder(Without(kwargs, "order_id")), resp))

get_refunds(c, order_id, resp) ==
    Invoked("get_refunds", [order_id |-> order_id],
            Get(c, <<"orders", order_id, "refunds">>, resp))

get_refund_by_id(c, order_id, refund_id, resp) ==
    Invoked("get_refund_by_id", [order_id |-> order_id, refund_id |-> refund_id],
            Get(c, <<"orders", order_id, "refunds", refund_id>>, resp))

(* --------------------------- response records -------------------------- *)
\* A str value holds the sequence of its characters, a datetime value its
\* fields; tzinfo is Naive (None) or the offset from UTC in seconds and
\* microseconds, both of the sign of the offset.
StrV(chars) == [type |-> "str", s |-> chars]
DatetimeV(year, month, day, hour, minute, second, microsecond, tzinfo) ==
    [type |-> "datetime", year |-> year, month |-> month, day |-> day,
     hour |-> hour, minute |-> minute, second |-> second,
     microsecond |-> microsecond, tzinfo |-> tzinfo]
IntV(n) == [type |-> "int", n |-> n]
Naive == [aware |-> FALSE, seconds |-> 0, microseconds |-> 0]
Offset(seconds, microseconds) ==
    [aware |-> TRUE, seconds |-> seconds, microseconds |-> microseconds]

DigitChars == <<"0", "1", "2", "3", "4", "5", "6", "7", "8", "9">>
IsDigit(ch) == \E i \in DOMAIN DigitChars : DigitChars[i] = ch
DigitOf(ch) == (CHOOSE i \in DOMAIN DigitChars : DigitChars[i] = ch) - 1

\* The n characters of s from position i are there and are digits.
AllDigits(s, i, n) == i + n - 1 <= Len(s) /\ \A k \in i..(i + n - 1) : IsDigit(s[k])

\* The number written by the n digits of s from position i; no field of a
\* timestamp has more than six.
Place(s, i, n, k) == IF k <= n THEN DigitOf(s[i + k - 1]) * 10 ^ (n - k) ELSE 0
Number(s, i, n) ==
    Place(s, i, n, 1) + Place(s, i, n, 2) + Place(s, i, n, 3) + Place(s, i, n, 4)
        + Place(s, i, n, 5) + Place(s, i, n, 6)

\* n written with w digits, zero-padded: "%0wd".
Pad(n, w) == [k \in 1..w |-> DigitChars[((n \div 10 ^ (w - k)) % 10) + 1]]

\* v.replace("Z", ""): every "Z" is removed.
NotZ(ch) == ch # "Z"
RemoveZ(s) == SelectSeq(s, NotZ)

Abs(n) == IF n < 0 THEN 0 - n ELSE n

IsLeap(year) == year % 4 = 0 /\ (year % 100 # 0 \/ year % 400 = 0)
DaysInMonth(year, month) ==
    IF month = 2 THEN (IF IsLeap(year) THEN 29 ELSE 28)
    ELSE IF month \in {4, 6, 9, 11} THEN 30 ELSE 31

\* The fields of a time or of the digits of an offset; ok is false where the
\* characters have no such form.
Clock(ok, hour, minute, second, microsecond) ==
    [ok |-> ok, hour |-> hour, minute |-> minute, second |-> second,
     microsecond |-> microsecond]

\* t of length n is HH[:MM[:SS[.fff[fff]]]].
ClockShaped(t, n) ==
    /\ n \in {2, 5, 8, 12, 15}
    /\ AllDigits(t, 1, 2)
    /\ n >= 5 => (t[3] = ":" /\ AllDigits(t, 4, 2))
    /\ n >= 8 => (t[6] = ":" /\ AllDigits(t, 7, 2))
    /\ n >= 12 => (t[9] = "." /\ AllDigits(t, 10, n - 9))

\* The fields written in t of length n; those that are not written are 0, and
\* three digits of a fraction are milliseconds.
ClockFields(t, n) ==
    Clock(TRUE,
          Number(t, 1, 2),
          IF n >= 5 THEN Number(t, 4, 2) ELSE 0,
          IF n >= 8 THEN Number(t, 7, 2) ELSE 0,
          IF n >= 12 THEN Number(t, 10, n - 9) * 10 ^ (15 - n) ELSE 0)

\* HH[:MM[:SS[.fff[fff]]]], the form fromisoformat reads a time and the
\* digits of an offset in.
ParseHhMmSsFf(t) ==
    IF ClockShaped(t, Len(t)) THEN ClockFields(t, Len(t)) ELSE Clock(FALSE, 0, 0, 0, 0)

\* The position of the first "+" or "-" of t, or 0.
SignPos(t) ==
    IF \E i \in DOMAIN t : t[i] \in {"+", "-"}
    THEN CHOOSE i \in DOMAIN t :
            /\ t[i] \in {"+", "-"}
            /\ \A j \in 1..(i - 1) : t[j] \notin {"+", "-"}
    ELSE 0

NotADatetime == [ok |-> FALSE, dt |-> DatetimeV(1, 1, 1, 0, 0, 0, 0, Naive)]

\* s of length n starts with YYYY-MM-DD, and what follows is nothing or a
\* separator and more.
DateShaped(s, n) ==
    /\ n >= 10 /\ n # 11
    /\ AllDigits(s, 1, 4) /\ s[5] = "-"
    /\ AllDigits(s, 6, 2) /\ s[8] = "-"
    /\ AllDigits(s, 9, 2)

\* The time string of s after its date and separator, split at the sign of
\* its offset: the time, the sign (1 or -1; 0 when there is no offset) and
\* the digits of the offset.
SplitAt(tstr, sp) ==
    IF sp = 0 THEN [clock |-> tstr, sign |-> 0, offset |-> <<>>]
    ELSE [clock |-> SubSeq(tstr, 1, sp - 1),
          sign |-> IF tstr[sp] = "-" THEN 0 - 1 ELSE 1,
          offset |-> SubSeq(tstr, sp + 1, Len(tstr))]
SplitTime(tstr) == SplitAt(tstr, SignPos(tstr))

\* The offset read from its sign and digits; tzinfo is Naive without a sign.
\* The offset has the form HH:MM[:SS[.ffffff]].
ReadOffset(sign, digits, tz) ==
    IF sign = 0 THEN [ok |-> TRUE, tzinfo |-> Naive]
    ELSE [ok |-> tz.ok /\ Len(digits) \in {5, 8, 15},
          tzinfo |-> Offset(sign * (tz.hour * 3600 + tz.minute * 60 + tz.second),
                            sign * tz.microsecond)]

\* The datetime of the fields read, when they are in range: a day of the
\* month, a time of the day, an offset of less than a day.
Assemble(year, month, day, clock, off) ==
    IF /\ year >= 1 /\ month >= 1 /\ month <= 12
       /\ day >= 1 /\ day <= DaysInMonth(year, month)
       /\ clock.ok /\ clock.hour <= 23 /\ clock.minute <= 59 /\ clock.second <= 59
       /\ off.ok /\ Abs(off.tzinfo.seconds) < 86400
    THEN [ok |-> TRUE,
          dt |-> DatetimeV(year, month, day, clock.hour, clock.minute,
                           clock.second, clock.microsecond, off.tzinfo)]
    ELSE NotADatetime

\* The date of s with the time and the offset that split holds.
ReadParts(s, split) ==
    Assemble(Number(s, 1, 4), Number(s, 6, 2), Number(s, 9, 2),
             ParseHhMmSsFf(split.clock),
             ReadOffset(split.sign, split.offset, ParseHhMmSsFf(split.offset)))

\* datetime.fromisoformat(s) for the forms its documentation lists,
\* YYYY-MM-DD[*HH[:MM[:SS[.fff[fff]]]][+HH:MM[:SS[.ffffff]]]]: ok is false
\* where it raises ValueError.  A date alone is midnight.
FromIsoformat(s) ==
    IF ~DateShaped(s, Len(s)) THEN NotADatetime
    ELSE IF Len(s) = 10 THEN ReadParts(s, SplitAt(<<"0", "0">>, 0))
    ELSE ReadParts(s, SplitTime(SubSeq(s, 12, Len(s))))

\* A variant that leaves the tzinfo of the value in place.
KeepTzinfo(dt) == dt

\* dt.replace(tzinfo=None): the same fields, without the offset.
ReplaceTzinfoNone(dt) == [dt EXCEPT !.tzinfo = Naive]

\* The offset as isoformat writes it: +HH:MM, then :SS and .ffffff when they
\* are not zero.
FormatSigned(sign, secs, us) ==
    <<sign>> \o Pad(secs \div 3600, 2) \o <<":">> \o Pad((secs % 3600) \div 60, 2)
        \o (IF secs % 60 # 0 \/ us # 0 THEN <<":">> \o Pad(secs % 60, 2) ELSE <<>>)
        \o (IF us # 0 THEN <<".">> \o Pad(us, 6) ELSE <<>>)
FormatOffset(off) ==
    FormatSigned(IF off.seconds < 0 \/ off.microseconds < 0 THEN "-" ELSE "+",
                 Abs(off.seconds), Abs(off.microseconds))

\* dt.isoformat(): YYYY-MM-DDTHH:MM:SS, then .ffffff when the microsecond is
\* not zero, then the offset when the value has one.
Isoformat(dt) ==
    Pad(dt.year, 4) \o <<"-">> \o Pad(dt.month, 2) \o <<"-">> \o Pad(dt.day, 2)
        \o <<"T">> \o Pad(dt.hour, 2) \o <<":">> \o Pad(dt.minute, 2)
        \o <<":">> \o Pad(dt.second, 2)
        \o (IF dt.microsecond # 0 THEN <<".">> \o Pad(dt.microsecond, 6) ELSE <<>>)
        \o (IF dt.tzinfo.aware THEN FormatOffset(dt.tzinfo) ELSE <<>>)

\* The str validate returns for what fromisoformat read, or its ValueError.
Normalized(parsed) ==
    IF ~parsed.ok THEN [error |-> "ValueError", value |-> StrV(<<>>)]
    ELSE [error |-> None, value |-> StrV(Isoformat(ReplaceTzinfoNone(parsed.dt)))]

\* ISODatetime.validate(v): the str it returns, or the error it raises.
ISODatetimeValidate(v) ==
    IF v.type = "str" THEN Normalized(FromIsoformat(RemoveZ(v.s)))
    ELSE IF v.type = "datetime"
    THEN [error |-> None, value |-> StrV(Isoformat(ReplaceTzinfoNone(v)))]
    ELSE [error |-> "TypeError", value |-> StrV(<<>>)]

\* The timestamps of the responses explored: a wall-clock date and time
\* followed by "", "Z" or an offset.
Wall2022 == <<"2", "0", "2", "2", "-", "0", "3", "-", "1", "8", "T", "1", "2", ":", "0", "0", ":", "0", "0">>
Wall2019 == <<"2", "0", "1", "9", "-", "0", "8", "-", "2", "4", "T", "1", "4", ":", "1", "5", ":", "2", "2">>
Ts(wall, tz) == StrV(wall \o tz)

OrderStatusEnum == {"EXPIRED", "UNPAID", "ON_HOLD", "PAID"}
PaymentStatusEnum ==
    {"PENDING", "REQUIRES_ACTION", "APPROVED", "CAPTURED", "CANCELLED", "DECLINED"}
RefundStatusEnum == {"PENDING", "APPROVED", "DECLINED"}
EventNameEnum ==
    {"ORDER_CREATED", "PAYMENT_CREATED", "REFUND_CREATED", "INSTALLMENT_CREATED",
     "SPLIT_CREATED", "ORDER_ON_HOLD", "ORDER_PAID", "ORDER_EXPIRED",
     "PAYMENT_DECLINED", "PAYMENT_ACTION_REQUIRED", "PAYMENT_APPROVED",
     "PAYMENT_CAPTURED", "CAPTURE_DECLINED", "PAYMENT_CANCELLED", "CANCEL_DECLINED",
     "REFUND_APPROVED", "REFUND_DECLINED", "SPLIT_APPROVED", "SPLIT_DECLINED",
     "SPLIT_REFUND_APPROVED", "SPLIT_REFUND_DECLINED", "CHECK_APPROVED",
     "CHECK_DECLINED", "OTP_SENT", "SEND_OTP_DECLINED", "OTP_CONFIRMED",
     "CONFIRM_OTP_DECLINED", "INSTALLMENT_ACTION_REQUIRED", "INSTALLMENT_ISSUED",
     "INSTALLMENT_REJECTED", "INSTALLMENT_DECLINED"}

MinOrderAttempts == 0   \* Order.attempts: Field(10, ge=0, le=50)

OrderFields ==
    {"id", "shop_id", "status", "created_at", "amount", "currency", "capture_method",
     "external_id", "description", "extra_info", "attempts", "due_date",
     "customer_id", "card_id", "mcc", "back_url", "success_url", "failure_url",
     "template", "checkout_url", "access_token"}
OrderRequired ==
    {"id", "shop_id", "status", "created_at", "amount", "currency", "capture_method"}
OrderOk(f, v) ==
    CASE f = "status" -> v \in OrderStatusEnum
      [] f = "currency" -> v \in CurrencyEnum
      [] f = "capture_method" -> v \in CaptureMethodEnum
      [] f = "external_id" -> Len(v) >= 1
      [] f = "attempts" -> v >= MinOrderAttempts /\ v <= MaxAttempts
      [] f \in {"customer_id", "card_id"} -> Len(v) >= 1
      [] f = "mcc" -> Len(v) = MccLength
      [] f \in {"back_url", "success_url", "failure_url", "checkout_url"} -> IsHttpUrl(v)
      [] OTHER -> TRUE
OrderDefault(f) ==
    CASE f = "attempts" -> DefaultAttempts
      [] OTHER -> None

PaymentResponseFields ==
    {"id", "order_id", "status", "created_at", "approved_amount", "captured_amount",
     "refunded_amount", "processing_fee", "payer", "error", "acquirer", "action"}
PaymentResponseRequired ==
    {"id", "order_id", "status", "created_at", "approved_amount", "captured_amount",
     "refunded_amount", "processing_fee"}
PaymentResponseOk(f, v) ==
    CASE f = "status" -> v \in PaymentStatusEnum
      [] OTHER -> TRUE

EventFields ==
    {"id", "name", "created_at", "order_id", "payment_id", "refund_id", "md",
     "pa_req", "acs_url", "term_url", "action_url", "code", "message"}
EventRequired == {"id", "name", "created_at", "order_id"}
EventOk(f, v) ==
    CASE f = "name" -> v \in EventNameEnum
      [] f \in {"acs_url", "term_url", "action_url"} -> IsHttpUrl(v)
      [] OTHER -> TRUE

RefundFields ==
    {"id", "payment_id", "order_id", "status", "created_at", "error", "acquirer"}
RefundRequired == {"id", "payment_id", "order_id", "status", "created_at"}
RefundOk(f, v) ==
    CASE f = "status" -> v \in RefundStatusEnum
      [] OTHER -> TRUE

NoDefault(f) == None

\* The record with the outcome of ISODatetime.validate on created_at: its
\* result replaces the value, its error is an error of the record.
WithCreatedAt(rec, validated) ==
    IF validated.error # None
    THEN [rec EXCEPT !.errors = @ \cup {"created_at"}]
    ELSE [rec EXCEPT !.values = [@ EXCEPT !["created_at"] = validated.value]]

\* A response record built from a JSON object: the fields are validated as for
\* a request record, and created_at, when it is there, goes through
\* ISODatetime.validate.
Parsed(rec) ==
    IF "created_at" \in rec.fields_set
    THEN WithCreatedAt(rec, ISODatetimeValidate(rec.values["created_at"]))
    ELSE rec

Order(json) ==
    Parsed(Construct(OrderFields, OrderRequired,
                     {f \in DOMAIN json \cap OrderFields : ~OrderOk(f, json[f])},
                     [f \in OrderFields |-> OrderDefault(f)], json))
CancelOrderResponse(json) ==
    Parsed(Construct(PaymentResponseFields, PaymentResponseRequired,
                     {f \in DOMAIN json \cap PaymentResponseFields :
                        ~PaymentResponseOk(f, json[f])},
                     [f \in PaymentResponseFields |-> NoDefault(f)], json))
CaptureOrderResponse(json) == CancelOrderResponse(json)
Event(json) ==
    Parsed(Construct(EventFields, EventRequired,
                     {f \in DOMAIN json \cap EventFields : ~EventOk(f, json[f])},
                     [f \in EventFields |-> NoDefault(f)], json))
Refund(json) ==
    Parsed(Construct(RefundFields, RefundRequired,
                     {f \in DOMAIN json \cap RefundFields : ~RefundOk(f, json[f])},
                     [f \in RefundFields |-> NoDefault(f)], json))

\* The response record of type cls built from json: cls(**json).
New(cls, json) ==
    CASE cls = "Order" -> Order(json)
      [] cls = "CancelOrderResponse" -> CancelOrderResponse(json)
      [] cls = "CaptureOrderResponse" -> CaptureOrderResponse(json)
      [] cls = "Event" -> Event(json)
      [] cls = "Refund" -> Refund(json)

(* --------------------------- the state --------------------------------- *)
Blank ==
    [op |-> "none", handle |-> None, self |-> None, client |-> None,
     args |-> EmptyDict, calls |-> <<>>, reqs |-> <<>>, logs |-> <<>>,
     outcome |-> "none", status |-> 0, result |-> <<>>, record |-> NoRecord,
     response |-> NoResponse]

\* str(uuid4()): the n-th call returns an identifier no other call returns.
Uuid4(n) == <<"uuid", n>>

\* The state once the module is imported and the two clients are constructed.
\* str(uuid4()) in the class body of CreateOrder runs once, at import.
Init ==
    /\ headers = [c \in Clients |-> InitHeaders(c)]
    /\ orderApi = None
    /\ uuidCalls = 1
    /\ externalIdDefault = Uuid4(1)
    /\ handles = {}
    /\ held = {}
    /\ last = Blank

(* --------------------------- direct _request calls --------------------- *)
StatusCodes == {100, 200, 299, 300, 399, 400, 599}

\* The dicts a caller passes as headers.
CallerHeaders ==
    { EmptyDict,
      "Accept" :> Str("text/plain"),
      "API-KEY" :> Str(""),
      "API-KEY" :> Str("stale-key") }

HeaderArgs == {NoArg} \cup {Arg(d) : d \in CallerHeaders}

\* The method, params and params_type of a direct call.
RequestShapes ==
    { [method |-> "get", params |-> NoArg, params_type |-> "json"],
      [method |-> "get", params |-> Arg(EmptyDict), params_type |-> "json"],
      [method |-> "post", params |-> Arg("q" :> "1"), params_type |-> "json"],
      [method |-> "get", params |-> Arg("q" :> "1"), params_type |-> "params"] }

RawResponses ==
    {TransportError} \cup {Http(s, v, "body") : s \in StatusCodes, v \in BOOLEAN}

\* client._request(method, "orders", params, params_type, headers, raise_for_status)
ApiRequest(c, shape, hdrs, raise_for_status, resp) ==
    LET r == Request(c, shape.method, <<"orders">>, shape.params,
                     shape.params_type, hdrs, raise_for_status, resp)
    IN  /\ headers' = [headers EXCEPT ![c] = r.selfHeaders]
        /\ last' = [Blank EXCEPT
                        !.op = "Api._request", !.client = c,
                        !.args = [headers |-> hdrs, params |-> shape.params,
                                  raise_for_status |-> raise_for_status,
                                  response |-> resp],
                        !.reqs = r.reqs, !.logs = r.logs,
                        !.outcome = r.outcome, !.status = r.status,
                        !.result = r.value, !.response = resp]
        /\ UNCHANGED <<orderApi, uuidCalls, externalIdDefault, handles, held>>

\* The calls explored: every headers argument with every response and both
\* values of raise_for_status, and every shape with a successful response.
GetShape == [method |-> "get", params |-> NoArg, params_type |-> "json"]
RequestInputs ==
    {[shape |-> GetShape, hdrs |-> h, raise_for_status |-> b, resp |-> r] :
        h \in HeaderArgs, b \in BOOLEAN, r \in RawResponses}
    \cup
    {[shape |-> sh, hdrs |-> NoArg, raise_for_status |-> TRUE,
      resp |-> Http(200, TRUE, "body")] : sh \in RequestShapes}

NextRequest ==
    \E c \in Clients, i \in RequestInputs :
        ApiRequest(c, i.shape, i.hdrs, i.raise_for_status, i.resp)

SpecRequest == Init /\ [][NextRequest]_vars

(* --------------------------- direct resource-method calls -------------- *)
\* What a call on client c leaves behind: self.headers as _request changed it,
\* and the record of the call.
ApiCall(op, c, args, resp, r) ==
    /\ headers' = [headers EXCEPT ![c] = r.selfHeaders]
    /\ last' = [Blank EXCEPT
                    !.op = op, !.client = c, !.args = args, !.calls = r.calls,
                    !.reqs = r.reqs, !.logs = r.logs, !.outcome = r.outcome,
                    !.status = r.status, !.result = r.value, !.record = r.record,
                    !.response = resp]
    /\ UNCHANGED <<orderApi, uuidCalls, externalIdDefault, handles, held>>

ApiCreateOrder(c, data, resp) ==
    ApiCall("Api.create_order", c, data, resp, create_order(c, data, resp))
ApiCancelOrder(c, kwargs, resp) ==
    ApiCall("Api.cancel_order", c, kwargs, resp, cancel_order(c, kwargs, resp))
ApiGetOrders(c, resp) ==
    ApiCall("Api.get_orders", c, EmptyDict, resp, get_orders(c, resp))
ApiGetOrderById(c, order_id, resp) ==
    ApiCall("Api.get_order_by_id", c, [order_id |-> order_id], resp,
            get_order_by_id(c, order_id, resp))
ApiCaptureOrder(c, kwargs, resp) ==
    ApiCall("Api.capture_order", c, kwargs, resp, capture_order(c, kwargs, resp))
ApiGetOrderEvents(c, order_id, resp) ==
    ApiCall("Api.get_order_events", c, [order_id |-> order_id], resp,
            get_order_events(c, order_id, resp))
ApiRefundOrder(c, kwargs, resp) ==
    ApiCall("Api.refund_order", c, kwargs, resp, refund_order(c, kwargs, resp))
ApiGetRefunds(c, order_id, resp) ==
    ApiCall("Api.get_refunds", c, [order_id |-> order_id], resp,
            get_refunds(c, order_id, resp))
ApiGetRefundById(c, order_id, refund_id, resp) ==
    ApiCall("Api.get_refund_by_id", c,
            [order_id |-> order_id, refund_id |-> refund_id], resp,
            get_refund_by_id(c, order_id, refund_id, resp))

(* The keyword arguments explored. *)
OrderIds == {"1", "2"}
RefundIds == {"r1", "r2"}
Url(scheme, host) == [scheme |-> scheme, host |-> host]

Chars16 == "0123456789abcdef"
Chars64 == Chars16 \o Chars16 \o Chars16 \o Chars16
Reason255 == Chars64 \o Chars64 \o Chars64 \o Chars16 \o Chars16 \o Chars16
                \o "0123456789abcde"
Reason256 == Chars64 \o Chars64 \o Chars64 \o Chars64

Amount == "amount" :> 100
CreateData ==
    { EmptyDict,
      "amount" :> 99,
      Amount,
      "amount" :> 50000,
      Amount @@ ("attempts" :> 10),
      Amount @@ ("attempts" :> 0),
      Amount @@ ("attempts" :> 50),
      Amount @@ ("attempts" :> 51),
      Amount @@ ("external_id" :> ""),
      Amount @@ ("external_id" :> "ext-1"),
      Amount @@ ("mcc" :> "123"),
      Amount @@ ("mcc" :> "1234"),
      Amount @@ ("mcc" :> "12345"),
      Amount @@ ("customer_id" :> ""),
      Amount @@ ("card_id" :> ""),
      Amount @@ ("currency" :> "KZT"),
      Amount @@ ("currency" :> "EUR"),
      Amount @@ ("back_url" :> Url("https", "shop.example")),
      Amount @@ ("back_url" :> Url("ftp", "shop.example")),
      Amount @@ ("note" :> "undeclared"),
      Amount @@ ("reason" :> Reason256),
      Amount @@ ("attempts" :> 10) @@ ("external_id" :> "ext-1")
             @@ ("description" :> "d") @@ ("capture_method" :> "AUTO") }

CancelKwargs ==
    { "reason" :> "r",
      "order_id" :> "1",
      ("order_id" :> "1") @@ ("reason" :> ""),
      ("order_id" :> "1") @@ ("reason" :> "r"),
      ("order_id" :> "2") @@ ("reason" :> Reason255),
      ("order_id" :> "1") @@ ("reason" :> Reason256) }

AmountKwargs ==
    { Amount,
      "order_id" :> "1",
      ("order_id" :> "1") @@ Amount,
      ("order_id" :> "2") @@ Amount @@ ("reason" :> "r"),
      ("order_id" :> "1") @@ ("amount" :> 99),
      ("order_id" :> "1") @@ Amount @@ ("reason" :> Reason256) }

ApiResponses == {TransportError, Http(200, TRUE, "json"), Http(404, TRUE, "json")}

NextApi ==
    \E c \in Clients, resp \in ApiResponses :
        \/ \E data \in CreateData : ApiCreateOrder(c, data, resp)
        \/ \E kwargs \in CancelKwargs : ApiCancelOrder(c, kwargs, resp)
        \/ ApiGetOrders(c, resp)
        \/ \E order_id \in OrderIds : ApiGetOrderById(c, order_id, resp)
        \/ \E kwargs \in AmountKwargs : ApiCaptureOrder(c, kwargs, resp)
        \/ \E order_id \in OrderIds : ApiGetOrderEvents(c, order_id, resp)
        \/ \E kwargs \in AmountKwargs : ApiRefundOrder(c, kwargs, resp)
        \/ \E order_id \in OrderIds : ApiGetRefunds(c, order_id, resp)
        \/ \E order_id \in OrderIds, refund_id \in RefundIds :
                ApiGetRefundById(c, order_id, refund_id, resp)

SpecApi == Init /\ [][NextApi]_vars

(* --------------------------- the Order facade -------------------------- *)
\* A variant that binds only when no client is bound yet.
BindIfUnbound(bound, api) == IF bound = None THEN api ELSE bound

\* Order.set_api: cls.api = api.  The new value of the class attribute.
Bind(bound, api) == api

\* The exception exc left the facade operation: nothing is returned.
Fail(r, exc) == [r EXCEPT !.outcome = exc, !.value = <<>>]
\* The facade operation returned v.
Done(r, v) == [r EXCEPT !.value = v]

\* A variant that returns the records in reverse order.
EachReversed(cls, jsons) ==
    [i \in DOMAIN jsons |-> New(cls, jsons[Len(jsons) + 1 - i])]

\* The response records built from a JSON list, one per element, in its order.
Each(cls, jsons) == [i \in DOMAIN jsons |-> New(cls, jsons[i])]

\* [cls(**d) for d in ...]: the comprehension raises as soon as one fails.
WrapList(cls, r) ==
    IF r.outcome # "returned" THEN r
    ELSE LET recs == Each(cls, r.value)
         IN  IF \E i \in DOMAIN recs : recs[i].errors # {}
             THEN Fail(r, "ValidationError")
             ELSE Done(r, recs)

\* cls(**json)
WrapOne(cls, r) ==
    IF r.outcome # "returned" THEN r
    ELSE LET rec == New(cls, r.value)
         IN  IF rec.errors # {} THEN Fail(r, "ValidationError") ELSE Done(r, rec)

\* The value under the key "order" of the response of create_order.
UnderOrderKey(json) == json["order"]

\* Order.create: cls(**cls.api.create_order(**data).get("order")); a body
\* without the key gives None, which cannot be unpacked (TypeError).
OrderCreateOp(data, resp) ==
    LET r == create_order(orderApi, data, resp)
    IN  IF r.outcome # "returned" THEN r
        ELSE IF "order" \notin DOMAIN r.value THEN Fail(r, "TypeError")
        ELSE WrapOne("Order", Done(r, UnderOrderKey(r.value)))

\* Order.cancel: CancelOrderResponse(**cls.api.cancel_order(**data))
OrderCancelOp(data, resp) ==
    WrapOne("CancelOrderResponse", cancel_order(orderApi, data, resp))

\* Order.list: [cls(**d) for d in cls.api.get_orders()]
OrderListOp(resp) == WrapList("Order", get_orders(orderApi, resp))

\* Order.retrieve: cls(**cls.api.get_order_by_id(order_id))
OrderRetrieveOp(order_id, resp) ==
    WrapOne("Order", get_order_by_id(orderApi, order_id, resp))

\* self.api.<method>(order_id=self.id, **data): a second order_id among the
\* keywords is a TypeError at the call.
WithSelfId(id, data) == ("order_id" :> id) @@ data

\* Order.capture
OrderCaptureOp(id, data, resp) ==
    IF "order_id" \in DOMAIN data
    THEN WithRecord(Raised(orderApi, "TypeError"), NoRecord)
    ELSE WrapOne("CaptureOrderResponse",
                 capture_order(orderApi, WithSelfId(id, data), resp))

\* Order.get_events
OrderGetEventsOp(id, resp) == WrapList("Event", get_order_events(orderApi, id, resp))

\* Order.refund
OrderRefundOp(id, data, resp) ==
    IF "order_id" \in DOMAIN data
    THEN WithRecord(Raised(orderApi, "TypeError"), NoRecord)
    ELSE WrapOne("Refund", refund_order(orderApi, WithSelfId(id, data), resp))

\* Order.refund_list
OrderRefundListOp(id, resp) == WrapList("Refund", get_refunds(orderApi, id, resp))

\* Order.refund_retrieve
OrderRefundRetrieveOp(id, refund_id, resp) ==
    WrapOne("Refund", get_refund_by_id(orderApi, id, refund_id, resp))

(* --------------------------- facade actions ---------------------------- *)
\* Ioka.order: return Order.set_api(self).  The caller now has the facade
\* "of" client c, which is the class Order itself.
OrderAccess(c) ==
    /\ orderApi' = Bind(orderApi, c)
    /\ handles' = handles \cup {c}
    /\ last' = [Blank EXCEPT !.op = "Ioka.order", !.client = c, !.handle = c]
    /\ UNCHANGED <<headers, uuidCalls, externalIdDefault, held>>

\* Order.set_api(c) called directly.
SetApi(c) ==
    /\ orderApi' = Bind(orderApi, c)
    /\ handles' = handles \cup {c}
    /\ last' = [Blank EXCEPT !.op = "Order.set_api", !.client = c, !.handle = c]
    /\ UNCHANGED <<headers, uuidCalls, externalIdDefault, held>>

\* What a facade operation leaves behind.  h: the client whose facade (or
\* whose record) the caller used; id: self.id for an instance operation.
FacadeCall(op, h, id, args, resp, r) ==
    /\ headers' = [headers EXCEPT ![r.client] = r.selfHeaders]
    /\ last' = [Blank EXCEPT
                    !.op = op, !.handle = h, !.self = id, !.client = r.client,
                    !.args = args, !.calls = r.calls,
                    !.reqs = r.reqs, !.logs = r.logs, !.outcome = r.outcome,
                    !.status = r.status, !.result = r.value, !.record = r.record,
                    !.response = resp]
    /\ UNCHANGED <<orderApi, uuidCalls, externalIdDefault, handles, held>>

OrderCreate(h, data, resp) ==
    /\ h \in handles
    /\ FacadeCall("Order.create", h, None, data, resp, OrderCreateOp(data, resp))

OrderCancel(h, data, resp) ==
    /\ h \in handles
    /\ FacadeCall("Order.cancel", h, None, data, resp, OrderCancelOp(data, resp))

OrderList(h, resp) ==
    /\ h \in handles
    /\ FacadeCall("Order.list", h, None, EmptyDict, resp, OrderListOp(resp))

OrderRetrieve(h, order_id, resp) ==
    /\ h \in handles
    /\ FacadeCall("Order.retrieve", h, None, [order_id |-> order_id], resp,
                  OrderRetrieveOp(order_id, resp))

\* self.id of a record the caller holds.
SelfId(o) == o.order.values["id"]

OrderCapture(o, data, resp) ==
    /\ o \in held
    /\ FacadeCall("Order.capture", o.via, o.order.values["id"], data, resp,
                  OrderCaptureOp(SelfId(o), data, resp))

OrderGetEvents(o, resp) ==
    /\ o \in held
    /\ FacadeCall("Order.get_events", o.via, o.order.values["id"], EmptyDict, resp,
                  OrderGetEventsOp(SelfId(o), resp))

OrderRefund(o, data, resp) ==
    /\ o \in held
    /\ FacadeCall("Order.refund", o.via, o.order.values["id"], data, resp,
                  OrderRefundOp(SelfId(o), data, resp))

OrderRefundList(o, resp) ==
    /\ o \in held
    /\ FacadeCall("Order.refund_list", o.via, o.order.values["id"], EmptyDict, resp,
                  OrderRefundListOp(SelfId(o), resp))

OrderRefundRetrieve(o, refund_id, resp) ==
    /\ o \in held
    /\ FacadeCall("Order.refund_retrieve", o.via, o.order.values["id"],
                  [refund_id |-> refund_id], resp,
                  OrderRefundRetrieveOp(SelfId(o), refund_id, resp))

\* The Order records a static operation returned.
Returned ==
    IF last.outcome # "returned" THEN {}
    ELSE IF last.op \in {"Order.create", "Order.retrieve"} THEN {last.result}
    ELSE IF last.op = "Order.list" THEN {last.result[i] : i \in DOMAIN last.result}
    ELSE {}

\* The caller keeps a reference to a record the last operation returned.
Keep(rec) ==
    /\ rec \in Returned
    /\ Cardinality(held) < MaxHeld
    /\ held' = held \cup {[order |-> rec, via |-> last.handle]}
    /\ UNCHANGED <<headers, orderApi, uuidCalls, externalIdDefault, handles, last>>

\* The caller drops its reference to a record.
Discard(o) ==
    /\ o \in held
    /\ held' = held \ {o}
    /\ UNCHANGED <<headers, orderApi, uuidCalls, externalIdDefault, handles, last>>

(* The responses explored. *)
OrderJson(id, status) ==
    [id |-> id, shop_id |-> "shop", status |-> status,
     created_at |-> Ts(Wall2022, <<"Z">>), amount |-> 50000,
     currency |-> "KZT", capture_method |-> "AUTO"]
PaymentJson(order_id, status) ==
    [id |-> "p1", order_id |-> order_id, status |-> status,
     created_at |-> Ts(Wall2019, <<"Z">>), approved_amount |-> 0,
     captured_amount |-> 0, refunded_amount |-> 0, processing_fee |-> 0]
EventJson(order_id, name) ==
    [id |-> "e1", name |-> name, created_at |-> Ts(Wall2022, <<>>),
     order_id |-> order_id]
RefundJson(order_id, status) ==
    [id |-> "r1", payment_id |-> "p1", order_id |-> order_id, status |-> status,
     created_at |-> Ts(Wall2022, <<"+", "0", "5", ":", "0", "0">>)]

Failures == {TransportError, Http(404, TRUE, [code |-> "NotFound"])}
Ok(json) == Http(200, TRUE, json)

CreateResponses == Failures \cup {Ok([order |-> OrderJson(id, "UNPAID")]) : id \in OrderIds}
ListResponses == Failures \cup {Ok(<<OrderJson("1", "UNPAID"), OrderJson("2", "PAID")>>)}
RetrieveResponses(id) == Failures \cup {Ok(OrderJson(id, "UNPAID"))}
CaptureResponses(id) == Failures \cup {Ok(PaymentJson(id, "CAPTURED"))}
EventsResponses(id) == Failures \cup {Ok(<<EventJson(id, "ORDER_CREATED")>>)}
RefundResponses(id) == Failures \cup {Ok(RefundJson(id, "PENDING"))}
RefundListResponses(id) == Failures \cup {Ok(<<RefundJson(id, "APPROVED")>>)}

\* Keywords of an instance operation that posts an amount.
PostData == {EmptyDict, Amount, ("order_id" :> "9") @@ Amount}
CancelData == ("order_id" :> "1") @@ ("reason" :> "r")

Next ==
    \/ \E c \in Clients : OrderAccess(c)
    \/ \E c \in Clients : SetApi(c)
    \/ \E h \in handles, resp \in CreateResponses : OrderCreate(h, Amount, resp)
    \/ \E h \in handles, resp \in Failures : OrderCancel(h, CancelData, resp)
    \/ \E h \in handles, resp \in ListResponses : OrderList(h, resp)
    \/ \E h \in handles, id \in OrderIds :
          \E resp \in RetrieveResponses(id) : OrderRetrieve(h, id, resp)
    \/ \E o \in held, data \in PostData :
          \E resp \in CaptureResponses(SelfId(o)) : OrderCapture(o, data, resp)
    \/ \E o \in held :
          \E resp \in EventsResponses(SelfId(o)) : OrderGetEvents(o, resp)
    \/ \E o \in held, data \in PostData :
          \E resp \in RefundResponses(SelfId(o)) : OrderRefund(o, data, resp)
    \/ \E o \in held :
          \E resp \in RefundListResponses(SelfId(o)) : OrderRefundList(o, resp)
    \/ \E o \in held, refund_id \in RefundIds :
          \E resp \in RefundResponses(SelfId(o)) : OrderRefundRetrieve(o, refund_id, resp)
    \/ \E rec \in Returned : Keep(rec)
    \/ \E o \in held : Discard(o)

Spec == Init /\ [][Next]_vars

(* --------------------------- the static operations, in breadth ---------- *)
\* Sequences over S of length at most n.
SeqsUpTo(S, n) == UNION {[1..k -> S] : k \in 0..n}

OrderJsons == {OrderJson(id, st) : id \in OrderIds, st \in {"UNPAID", "PAID", "BOGUS"}}
ListedJsons == {OrderJson("1", "UNPAID"), OrderJson("2", "PAID"), OrderJson("2", "BOGUS")}

CreateBodies ==
    Failures \cup {Ok([order |-> j]) : j \in OrderJsons}
             \cup {Ok([error |-> "no order"]), Http(200, FALSE, <<>>)}
ListBodies == Failures \cup {Ok(js) : js \in SeqsUpTo(ListedJsons, MaxList)}
RetrieveBodies == Failures \cup {Ok(j) : j \in OrderJsons}

NextFacade ==
    \/ \E c \in Clients : OrderAccess(c)
    \/ \E h \in handles, data \in {Amount, "amount" :> 99}, resp \in CreateBodies :
          OrderCreate(h, data, resp)
    \/ \E h \in handles, resp \in ListBodies : OrderList(h, resp)
    \/ \E h \in handles, id \in OrderIds, resp \in RetrieveBodies :
          OrderRetrieve(h, id, resp)

SpecFacade == Init /\ [][NextFacade]_vars

(* --------------------------- every operation, failing ------------------- *)
\* The answers of the transport to one request whose success body is json: a
\* transport failure, a status of each class the service answers with, and a
\* success whose body is no JSON.
Answers(json) ==
    {TransportError, Http(200, FALSE, <<>>)}
        \cup {Http(s, TRUE, json) : s \in {200, 300, 404, 503}}

CaptureKwargs == ("order_id" :> "1") @@ Amount

NextErrors ==
    \/ \E c \in Clients, b \in BOOLEAN, resp \in Answers("body") :
          ApiRequest(c, GetShape, NoArg, b, resp)
    \/ \E c \in Clients, resp \in Answers("json") :
          \/ ApiCreateOrder(c, Amount, resp)
          \/ ApiCancelOrder(c, CancelData, resp)
          \/ ApiGetOrders(c, resp)
          \/ ApiGetOrderById(c, "1", resp)
          \/ ApiCaptureOrder(c, CaptureKwargs, resp)
          \/ ApiGetOrderEvents(c, "1", resp)
          \/ ApiRefundOrder(c, CaptureKwargs, resp)
          \/ ApiGetRefunds(c, "1", resp)
          \/ ApiGetRefundById(c, "1", "r1", resp)
    \/ \E c \in Clients : OrderAccess(c)
    \/ \E h \in handles, resp \in Answers([order |-> OrderJson("1", "UNPAID")]) :
          OrderCreate(h, Amount, resp)
    \/ \E h \in handles, resp \in Answers(PaymentJson("1", "CAPTURED")) :
          OrderCancel(h, CancelData, resp)
    \/ \E h \in handles, resp \in Answers(<<OrderJson("1", "UNPAID")>>) :
          OrderList(h, resp)
    \/ \E h \in handles, resp \in Answers(OrderJson("1", "UNPAID")) :
          OrderRetrieve(h, "1", resp)
    \/ \E o \in held, resp \in Answers(PaymentJson("1", "CAPTURED")) :
          OrderCapture(o, Amount, resp)
    \/ \E o \in held, resp \in Answers(<<EventJson("1", "ORDER_CREATED")>>) :
          OrderGetEvents(o, resp)
    \/ \E o \in held, resp \in Answers(RefundJson("1", "PENDING")) :
          OrderRefund(o, Amount, resp)
    \/ \E o \in held, resp \in Answers(<<RefundJson("1", "APPROVED")>>) :
          OrderRefundList(o, resp)
    \/ \E o \in held, resp \in Answers(RefundJson("1", "PENDING")) :
          OrderRefundRetrieve(o, "r1", resp)
    \/ \E rec \in Returned : Keep(rec)
    \/ \E o \in held : Discard(o)

SpecErrors == Init /\ [][NextErrors]_vars

(* --------------------------- ISODatetime.validate, on its own ----------- *)
\* The values explored: strings put together from a date, a separator, a
\* time and a suffix, each set holding forms fromisoformat accepts and forms
\* it rejects; datetime values, naive and aware; and a value of another type.
Dates ==
    { <<"2", "0", "1", "9", "-", "0", "8", "-", "2", "4">>,
      <<"2", "0", "2", "0", "-", "0", "2", "-", "2", "9">>,
      <<"2", "0", "1", "9", "-", "0", "2", "-", "2", "9">>,
      <<"0", "0", "0", "1", "-", "0", "1", "-", "0", "1">>,
      <<"2", "0", "1", "9", "-", "1", "3", "-", "0", "1">> }
Separators == {"T", " "}
Clocks ==
    { <<"1", "4">>,
      <<"1", "4", ":", "1", "5">>,
      <<"1", "4", ":", "1", "5", ":", "2", "2">>,
      <<"1", "4", ":", "1", "5", ":", "2", "2", ".", "1", "2", "3">>,
      <<"1", "4", ":", "1", "5", ":", "2", "2", ".", "1", "2", "3", "4", "5", "6">>,
      <<"0", "0", ":", "0", "0", ":", "0", "0">>,
      <<"2", "3", ":", "5", "9", ":", "5", "9", ".", "0", "0", "0", "0", "0", "0">>,
      <<"2", "4", ":", "0", "0", ":", "0", "0">>,
      <<"1", "4", ":", "1", "5", ":", "2", "2", ".", "5">>,
      <<"1", "4", ":", "6", "0">> }
Suffixes ==
    { <<>>,
      <<"Z">>,
      <<"+", "0", "5", ":", "0", "0">>,
      <<"-", "0", "3", ":", "3", "0">>,
      <<"+", "0", "0", ":", "0", "0">>,
      <<"+", "0", "5", ":", "3", "0", ":", "1", "5">>,
      <<"+", "2", "4", ":", "0", "0">>,
      <<"+", "0", "5">> }

StrInputs ==
    {StrV(d) : d \in Dates} \cup {StrV(d \o <<"Z">>) : d \in Dates}
        \cup {StrV(d \o <<sep>> \o t \o z) :
                d \in Dates, sep \in Separators, t \in Clocks, z \in Suffixes}

DatetimeInputs ==
    {DatetimeV(2019, 8, 24, 14, 15, 22, us, tz) :
        us \in {0, 500, 123456},
        tz \in {Naive, Offset(0, 0), Offset(18000, 0), Offset(0 - 12600, 0)}}
        \cup {DatetimeV(9999, 12, 31, 23, 59, 59, 999999, Offset(3600, 0)),
              DatetimeV(1, 1, 1, 0, 0, 0, 0, Naive)}

ValidateInputs == StrInputs \cup DatetimeInputs \cup {IntV(0)}

\* The caller holds a value v and has not called validate yet.
InitDatetime ==
    /\ headers = [c \in Clients |-> InitHeaders(c)]
    /\ orderApi = None
    /\ uuidCalls = 1
    /\ externalIdDefault = Uuid4(1)
    /\ handles = {}
    /\ held = {}
    /\ \E v \in ValidateInputs :
          last = [Blank EXCEPT !.op = "input",
                               !.args = [v |-> v, origin |-> v, again |-> FALSE]]

\* What ISODatetime.validate(v) leaves behind; origin: the value the caller
\* started from, again: v is what an earlier call returned.
ValidateCall(v, origin, again) ==
    LET r == ISODatetimeValidate(v)
    IN  /\ last' = [Blank EXCEPT
                        !.op = "ISODatetime.validate",
                        !.args = [v |-> v, origin |-> origin, again |-> again],
                        !.outcome = IF r.error = None THEN "returned" ELSE r.error,
                        !.result = r.value]
        /\ UNCHANGED <<headers, orderApi, uuidCalls, externalIdDefault, handles, held>>

\* ISODatetime.validate(v) on the value the caller holds.
Validate ==
    /\ last.op = "input"
    /\ ValidateCall(last.args.v, last.args.origin, FALSE)

\* ISODatetime.validate on the str the call before returned.
ValidateAgain ==
    /\ last.op = "ISODatetime.validate"
    /\ last.outcome = "returned"
    /\ ValidateCall(last.result, last.args.origin, TRUE)

NextDatetime == Validate \/ ValidateAgain

SpecDatetime == InitDatetime /\ [][NextDatetime]_vars

(* --------------------------- claims on the facade ----------------------- *)
StaticOps == {"Order.create", "Order.cancel", "Order.list", "Order.retrieve"}
InstanceOps ==
    {"Order.capture", "Order.get_events", "Order.refund", "Order.refund_list",
     "Order.refund_retrieve"}
FacadeOps == StaticOps \cup InstanceOps
Binders == {"Ioka.order", "Order.set_api"}

\* Every request of the last operation went to client c: its host, its key.
IssuedThrough(l, c) ==
    \A i \in DOMAIN l.reqs :
        /\ l.reqs[i].url.host = ApiHost(c)
        /\ l.reqs[i].headers["API-KEY"] = Str(ApiKey(c))

\* C1: an operation invoked through the facade obtained from client A, or on
\* an Order record obtained through A, issues its requests with A's host and
\* A's key, whatever .order accesses on other clients came in between.
C1_OwnCredentials ==
    last.op \in FacadeOps => IssuedThrough(last, last.handle)

\* The verb and the path the operation table gives an instance operation.
TableEntry(op, id, args) ==
    CASE op = "Order.capture" -> [method |-> "post", path |-> <<"orders", id, "capture">>]
      [] op = "Order.get_events" -> [method |-> "get", path |-> <<"orders", id, "events">>]
      [] op = "Order.refund" -> [method |-> "post", path |-> <<"orders", id, "refunds">>]
      [] op = "Order.refund_list" -> [method |-> "get", path |-> <<"orders", id, "refunds">>]
      [] op = "Order.refund_retrieve" ->
            [method |-> "get", path |-> <<"orders", id, "refunds", args.refund_id>>]

\* C8: an instance operation on an Order record o calls the bound client with
\* order_id = o.id, and every request it issues has the verb and the path of
\* the operation table with o.id in it, whatever records were used before.
C8_InstanceOpsUseSelfId ==
    last.op \in InstanceOps =>
        /\ \A i \in DOMAIN last.calls : last.calls[i].args["order_id"] = last.self
        /\ \A i \in DOMAIN last.reqs :
              /\ last.reqs[i].method = TableEntry(last.op, last.self, last.args).method
              /\ last.reqs[i].url.path = TableEntry(last.op, last.self, last.args).path

\* capture on the held record with id "2" issued its request and was answered
\* with success.
C8_Witness ==
    /\ last.op = "Order.capture"
    /\ last.self = "2"
    /\ Len(last.reqs) = 1
    /\ last.outcome = "returned"

\* C10: an access of .order (or a set_api call) on client c leaves the facade
\* bound to c; the binding changes only by such an access or call; and a
\* facade operation issues its requests through the client bound when it runs.
C10_AccessBinds ==
    [][ /\ (last'.op \in Binders => orderApi' = last'.client)
        /\ (orderApi' # orderApi => (last'.op \in Binders /\ last' # last))
        /\ ((last'.op \in FacadeOps /\ last' # last)
                => (last'.client = orderApi /\ IssuedThrough(last', orderApi))) ]_vars

\* Both clients' .order were accessed, B's last; the facade then bound to B
\* issued a request.
C10_Witness ==
    /\ handles = Clients
    /\ orderApi = "B"
    /\ last.op = "Order.list"
    /\ last.client = "B"
    /\ Len(last.reqs) = 1

\* C9: a static facade operation calls the bound client once with the
\* caller's arguments; when the response is a success whose JSON builds valid
\* records, create returns the Order built from the value under "order",
\* retrieve the Order built from the body and list one Order per element in
\* the same order, the enum fields holding the strings of the JSON.
AllValid(jsons) == \A i \in DOMAIN jsons : Order(jsons[i]).errors = {}
IsOkJson(resp) == ~resp.transport /\ resp.status = 200 /\ resp.valid

C9_StaticOpsWrap ==
    LET json == last.response.json IN
    /\ last.op \in {"Order.create", "Order.list", "Order.retrieve"} =>
          /\ Len(last.calls) = 1
          /\ DOMAIN last.calls[1].args = DOMAIN last.args
          /\ \A k \in DOMAIN last.args : last.calls[1].args[k] = last.args[k]
    /\ (last.op = "Order.create" /\ Len(last.reqs) = 1 /\ IsOkJson(last.response)
            /\ "order" \in DOMAIN json /\ Order(json["order"]).errors = {}) =>
          /\ last.outcome = "returned"
          /\ last.result = Order(json["order"])
          /\ last.result.values["status"] = json["order"].status
          /\ last.result.values["currency"] = json["order"].currency
    /\ (last.op = "Order.retrieve" /\ IsOkJson(last.response)
            /\ Order(json).errors = {}) =>
          /\ last.outcome = "returned"
          /\ last.result = Order(json)
          /\ last.result.values["status"] = json.status
    /\ (last.op = "Order.list" /\ IsOkJson(last.response) /\ AllValid(json)) =>
          /\ last.outcome = "returned"
          /\ Len(last.result) = Len(json)
          /\ \A i \in DOMAIN json :
                /\ last.result[i] = Order(json[i])
                /\ last.result[i].values["status"] = json[i].status

\* list returned two different records, in the order of the response.
C9_Witness ==
    /\ last.op = "Order.list"
    /\ last.outcome = "returned"
    /\ Len(last.result) = 2
    /\ last.result[1].values["id"] = "1"
    /\ last.result[2].values["id"] = "2"

(* --------------------------- claims on the resource methods ------------ *)
\* C2: cancel_order (and Order.cancel, which forwards to it) called with an
\* order_id and a reason of at most 255 characters passes validation and
\* issues exactly one POST to orders/{order_id}/cancel.
C2_CancelIssuesPost ==
    ( /\ last.op \in {"Api.cancel_order", "Order.cancel"}
      /\ {"order_id", "reason"} \subseteq DOMAIN last.args
      /\ Len(last.args["reason"]) <= MaxReasonLength )
    => ( /\ last.outcome # "ValidationError"
         /\ Len(last.reqs) = 1
         /\ last.reqs[1].method = "post"
         /\ last.reqs[1].url.path = <<"orders", last.args["order_id"], "cancel">> )

\* A CreateOrder record was constructed, the caller supplying no external_id.
DefaultedCreate(l) ==
    /\ l.op = "Api.create_order"
    /\ l.record.errors = {}
    /\ "amount" \in l.record.fields_set
    /\ "external_id" \notin l.record.fields_set

\* C6: two CreateOrder records constructed one after the other without a
\* caller-supplied external_id receive different external_id values.
C6_FreshExternalId ==
    [][ (DefaultedCreate(last) /\ DefaultedCreate(last'))
        => last'.record.values["external_id"] # last.record.values["external_id"] ]_vars

\* The declared fields of the record type a posting method validates through.
DeclaredFields(op) ==
    CASE op = "Api.create_order" -> CreateOrderFields
      [] op = "Api.capture_order" -> CaptureOrderFields
      [] op = "Api.refund_order" -> RefundOrderFields

\* C7: when create_order, capture_order or refund_order passes validation, the
\* keys of the outgoing body are exactly the declared fields the caller
\* supplied: an unsupplied field is absent even if it has a default, and a
\* field supplied with its default value is present.
C7_BodyIsSuppliedFields ==
    ( /\ last.op \in {"Api.create_order", "Api.capture_order", "Api.refund_order"}
      /\ last.outcome \notin {"ValidationError", "TypeError"} )
    => ( /\ Len(last.reqs) = 1
         /\ DOMAIN last.reqs[1].body =
                (DOMAIN last.args \ {"order_id"}) \cap DeclaredFields(last.op) )

\* create_order was given attempts equal to its default and no external_id,
\* and sent a body.
C7_Witness ==
    /\ last.op = "Api.create_order"
    /\ Len(last.reqs) = 1
    /\ "attempts" \in DOMAIN last.args
    /\ last.args["attempts"] = DefaultAttempts
    /\ "external_id" \notin DOMAIN last.args
    /\ "attempts" \in DOMAIN last.reqs[1].body
    /\ "external_id" \notin DOMAIN last.reqs[1].body

(* --------------------------- claims on _request ------------------------ *)
IsRequestCall == last.op = "Api._request"
Is2xx(status) == status >= 200 /\ status <= 299

\* The text of a debug trace shows the cleartext key of client c.
ShowsKey(line, c) == \E n \in DOMAIN line.headers : line.headers[n] = ApiKey(c)

\* C3: no debug trace of a request call on a client contains that client's
\* cleartext API key, on the first call and on every later one.
C3_NoKeyInLogs ==
    IsRequestCall =>
        \A i \in DOMAIN last.logs : ~ShowsKey(last.logs[i], last.client)

C5_KeyHeaderIsSecret ==
    IsRequestCall =>
        \A i \in DOMAIN last.reqs :
            /\ "API-KEY" \in DOMAIN last.reqs[i].headers
            /\ last.reqs[i].headers["API-KEY"] = Str(ApiKey(last.client))

\* A call whose caller passed a different API-KEY value issued its request.
C5_Witness ==
    /\ IsRequestCall /\ Len(last.reqs) = 1
    /\ last.args.headers.given
    /\ "API-KEY" \in DOMAIN last.args.headers.d
    /\ last.args.headers.d["API-KEY"] = Str("stale-key")

\* The operations that validate an amount record, and the keywords their
\* **data receives.
ValidatingOps == {"Api.create_order", "Api.capture_order", "Api.refund_order"}
DataOf(op, args) == IF op = "Api.create_order" THEN args ELSE Without(args, "order_id")

\* The call reached the method body: capture_order and refund_order need the
\* keyword order_id.
Entered(op, args) == op = "Api.create_order" \/ "order_id" \in DOMAIN args

\* The keywords break one of the bounds the record of op declares.
BreaksBound(op, d) ==
    \/ "amount" \in DOMAIN d /\ d["amount"] < MinAmount
    \/ /\ op = "Api.create_order"
       /\ \/ "mcc" \in DOMAIN d /\ Len(d["mcc"]) # MccLength
          \/ "attempts" \in DOMAIN d
                /\ (d["attempts"] < MinAttempts \/ d["attempts"] > MaxAttempts)
          \/ \E f \in {"external_id", "customer_id", "card_id"} :
                f \in DOMAIN d /\ d[f] = ""
          \/ \E f \in {"back_url", "success_url", "failure_url"} :
                f \in DOMAIN d /\ ~IsHttpUrl(d[f])
    \/ /\ op \in {"Api.capture_order", "Api.refund_order"}
       /\ "reason" \in DOMAIN d /\ Len(d["reason"]) > MaxReasonLength

\* The keywords are a valid keyword set apart from the bounds: the required
\* amount is there and the enum fields hold members of their enums.
WellFormed(d) ==
    /\ "amount" \in DOMAIN d
    /\ "currency" \in DOMAIN d => d["currency"] \in CurrencyEnum
    /\ "capture_method" \in DOMAIN d => d["capture_method"] \in CaptureMethodEnum

\* C11: when the keywords of create_order, capture_order or refund_order break
\* a declared bound, the call fails with ValidationError and issues no
\* request; when they are well formed and break none, the call passes
\* validation and issues its request.
C11_ValidationPrecedesIO ==
    (last.op \in ValidatingOps /\ Entered(last.op, last.args)) =>
        LET d == DataOf(last.op, last.args) IN
        /\ BreaksBound(last.op, d) =>
              last.outcome = "ValidationError" /\ last.reqs = <<>>
        /\ (WellFormed(d) /\ ~BreaksBound(last.op, d)) =>
              last.outcome # "ValidationError" /\ Len(last.reqs) = 1

\* refund_order was called with a reason of 256 characters and failed
\* validation.
C11_Witness ==
    /\ last.op = "Api.refund_order"
    /\ "reason" \in DOMAIN last.args
    /\ Len(last.args["reason"]) = MaxReasonLength + 1
    /\ last.outcome = "ValidationError"

(* --------------------------- claims on failures ------------------------- *)
ApiOps ==
    {"Api.create_order", "Api.cancel_order", "Api.get_orders", "Api.get_order_by_id",
     "Api.capture_order", "Api.get_order_events", "Api.refund_order",
     "Api.get_refunds", "Api.get_refund_by_id"}
Operations == {"Api._request"} \cup ApiOps \cup FacadeOps

\* raise_for_status of the request of the last operation: the resource
\* methods leave it at its default, true.
RaisingFor(l) == IF l.op = "Api._request" THEN l.args.raise_for_status ELSE TRUE

\* The operation ended after its single request with the error exc reaching
\* the caller and nothing returned.
EndedWith(l, excs) == Len(l.reqs) = 1 /\ l.outcome \in excs /\ l.result = <<>>

ZeroTemplate ==
    <<"0", "0", "0", "0", "-", "0", "0", "-", "0", "0", "T", "0", "0", ":", "0", "0", ":", "0", "0", ".", "0", "0", "0", "0", "0", "0">>

\* The characters of a timestamp up to its suffix: "Z" left out, cut before
\* the sign of an offset.
WallPart(s) ==
    LET t == RemoveZ(s)
    IN  IF \E i \in 12..Len(t) : t[i] \in {"+", "-"}
        THEN SubSeq(t, 1, (CHOOSE i \in 12..Len(t) :
                              /\ t[i] \in {"+", "-"}
                              /\ \A j \in 12..(i - 1) : t[j] \notin {"+", "-"}) - 1)
        ELSE t

\* The wall-clock reading of a timezone-less timestamp, every field written
\* out: the fields that are not written read as zero, the separator as "T".
Canon(s) ==
    [i \in 1..Len(ZeroTemplate) |->
        IF i = 11 THEN "T" ELSE IF i <= Len(s) THEN s[i] ELSE ZeroTemplate[i]]

\* s is YYYY-MM-DDTHH:MM:SS or YYYY-MM-DDTHH:MM:SS.ffffff: no "Z", no offset.
IsNaiveIso(s) ==
    /\ Len(s) \in {19, 26}
    /\ s[11] = "T"
    /\ \A i \in DOMAIN s : s[i] # "Z"
    /\ \A i \in 11..Len(s) : s[i] \notin {"+", "-"}

\* The str out writes the wall-clock fields of the datetime value dt.
WritesFieldsOf(out, dt) ==
    /\ Number(out, 1, 4) = dt.year /\ Number(out, 6, 2) = dt.month
    /\ Number(out, 9, 2) = dt.day /\ Number(out, 12, 2) = dt.hour
    /\ Number(out, 15, 2) = dt.minute /\ Number(out, 18, 2) = dt.second
    /\ (IF Len(out) = 26 THEN Number(out, 21, 6) ELSE 0) = dt.microsecond

====
